---- MODULE Spec2Model ----
(***************************************************************************)
(* Model of the Winit component of leptos-winit (src/src/lib.rs).          *)
(*                                                                         *)
(* One call of the component function `Winit` is one atomic action: the    *)
(* function is synchronous, and the page runs on a single thread.  What    *)
(* the function leaves behind runs later, each as an action of its own:    *)
(* the reactive effect (queued by create_effect, re-queued by every change *)
(* of a signal it read), the future handed to spawn_local, and the parent  *)
(* view, which is the one that puts the returned canvas into the document  *)
(* and takes it out again.                                                 *)
(***************************************************************************)
EXTENDS Integers, Sequences, FiniteSets

\* ------------------------------------------------------------------ bounds
\* Number of times the component function is called on a page (PageSpec).
MaxInst == 2
\* Number of signal writes (width, height or alt) over a run (Spec).
MaxChanges == 2
\* Number of writes a program makes to its window directly (Spec).
MaxProgWrites == 1

\* --------------------------------------------------------- program constants
\* #[prop(into, default = 500.into())] width
DefaultWidth == 500
\* #[prop(into, default = 500.into())] height
DefaultHeight == 500
\* #[prop(into, default = "Winit Window".into())] alt
DefaultAlt == "Winit Window"

\* -------------------------------------------------------------- input sets
Ids == 1..MaxInst
Widths == {500, 640}
Heights == {500, 480}
Alts == {"Winit Window", "Game"}
\* A prop as the caller writes it: {} when omitted, {v} when given.
Props == { [width |-> {}, height |-> {}, alt |-> {}],
           [width |-> {640}, height |-> {480}, alt |-> {"Game"}],
           [width |-> {}, height |-> {480}, alt |-> {}] }
\* The props of the calls on a page with several calls.
PageProps == { [width |-> {}, height |-> {}, alt |-> {}],
               [width |-> {640}, height |-> {480}, alt |-> {"Game"}] }
\* Sizes and titles a program sets on its window through its own handle.
ProgSizes == {<<800, 600>>}
ProgTitles == {"Custom"}

VARIABLES
  status,     \* per call: "fresh", "rejected", "panicked", "done"
  trace,      \* per call: the steps of the function body that ran, in order
  given,      \* per call: the props as written by the caller
  env,        \* per call: what the check found, how the `expect`s went and
              \* whether build() returned
  sig,        \* per call: current value of the width, height and alt signals
  canvas,     \* per call: "none", "dropped", "detached", "mounted", "removed"
              \* ("created" only inside a call)
  evloop,     \* per call: the EventLoop it created (id 0: none) and its holder
  window,     \* per call: the Window it built (id 0: none)
  effect,     \* per call: the reactive effect (changedIn: state of the program
              \* at the latest signal write; appliedIn: the same for the
              \* write the last run picked up)
  prog,       \* per call: the spawned task and the program in it
  logs,       \* number of lines logged, per message
  nextId,     \* next EventLoop id and next Window id
  budget      \* calls, signal writes and program writes the run may still make
vars == <<status, trace, given, env, sig, canvas, evloop, window, effect, prog,
          logs, nextId, budget>>

NoWindow == [id |-> 0, canvas |-> 0, el |-> 0, size |-> <<0, 0>>,
             title |-> "", sizeBy |-> "none", titleBy |-> "none"]
NoEffect == [registered |-> FALSE, win |-> 0, pending |-> FALSE,
             cause |-> {}, changedIn |-> "none", ran |-> FALSE,
             writes |-> <<>>, lastCause |-> {}, overwrote |-> "none",
             appliedIn |-> "none"]
NoProg == [state |-> "none", el |-> 0, win |-> 0, spawns |-> 0, calls |-> 0,
           exitWarns |-> 0]
NoLoop == [id |-> 0, holder |-> "none"]

\* ------------------------------------------------------- the function body
\* A prop with a default: the value given, else the default.
PropOr(p, d) == IF p = {} THEN d ELSE CHOOSE v \in p : TRUE

\* The elements with id "Winit" that are in the document: the canvases the
\* parent views have mounted and not yet removed.
DocWinit == {i \in Ids : canvas[i] = "mounted"}

\* Variant: the check remembers every canvas that was ever in the document.
ExistsWinitEver == \E i \in Ids : canvas[i] \in {"mounted", "removed"}

\* leptos_dom::document().get_element_by_id("Winit") is Some(_).
ExistsWinit == DocWinit # {}

\* Variant: the error is logged but the function does not return.
WinitStepsNoReturn(found, refOk, loopOk, buildOk) ==
  IF found
  THEN <<"check", "error", "canvas", "warn", "eventloop", "window", "effect",
         "spawn", "return">>
  ELSE IF ~refOk THEN <<"check", "canvas", "panic_ref">>
  ELSE IF ~loopOk THEN <<"check", "canvas", "warn", "panic_loop">>
  ELSE IF ~buildOk
  THEN <<"check", "canvas", "warn", "eventloop", "panic_window">>
  ELSE <<"check", "canvas", "warn", "eventloop", "window", "effect", "spawn",
         "return">>

\* Variant: a failed window build is not fatal.
WinitStepsIgnoreBuildError(found, refOk, loopOk, buildOk) ==
  IF found THEN <<"check", "error">>
  ELSE IF ~refOk THEN <<"check", "canvas", "panic_ref">>
  ELSE IF ~loopOk THEN <<"check", "canvas", "warn", "panic_loop">>
  ELSE IF ~buildOk
  THEN <<"check", "canvas", "warn", "eventloop", "effect", "spawn", "return">>
  ELSE <<"check", "canvas", "warn", "eventloop", "window", "effect", "spawn",
         "return">>

\* Variant: the program is spawned before the window is built.
WinitStepsSpawnFirst(found, refOk, loopOk, buildOk) ==
  IF found THEN <<"check", "error">>
  ELSE IF ~refOk THEN <<"check", "canvas", "panic_ref">>
  ELSE IF ~loopOk THEN <<"check", "canvas", "warn", "panic_loop">>
  ELSE IF ~buildOk
  THEN <<"check", "canvas", "warn", "eventloop", "spawn", "panic_window">>
  ELSE <<"check", "canvas", "warn", "eventloop", "spawn", "window", "effect",
         "return">>

\* The control flow of the function body: the steps that run, in order, given
\* what the existence check found, whether the two `expect`s hold and whether
\* the call of build() returns.  The body has three early exits of its own:
\* return None, and the two expect calls.  build() is a call into winit, which
\* does not support a second EventLoop (crate docs, "Multiple windows"): some
\* versions panic inside build() when one was built before, others return.
WinitSteps(found, refOk, loopOk, buildOk) ==
  IF found THEN <<"check", "error">>
  ELSE IF ~refOk THEN <<"check", "canvas", "panic_ref">>
  ELSE IF ~loopOk THEN <<"check", "canvas", "warn", "panic_loop">>
  ELSE IF ~buildOk
  THEN <<"check", "canvas", "warn", "eventloop", "panic_window">>
  ELSE <<"check", "canvas", "warn", "eventloop", "window", "effect", "spawn",
         "return">>

\* What a call gets to see of its surroundings: a check it never reaches is
\* recorded as passed.
Observed(found, gone, refOk, loopOk, buildOk) ==
  [found |-> found, gone |-> gone, refOk |-> found \/ refOk,
   loopOk |-> found \/ ~refOk \/ loopOk,
   buildOk |-> found \/ ~refOk \/ ~loopOk \/ buildOk]

\* The locals of one call before its first step.
Fresh(i, w, h, a) ==
  [self |-> i, width |-> w, height |-> h, alt |-> a,
   canvas |-> "none", loop |-> NoLoop, win |-> NoWindow,
   effect |-> NoEffect, prog |-> NoProg, logs |-> logs, nextId |-> nextId,
   status |-> "fresh"]

\* log::error!(...); return None
StepError(st) ==
  [st EXCEPT !.logs.error = @ + 1, !.status = "rejected"]

\* html::canvas().id("Winit") loaded into the node ref
StepCanvas(st) == [st EXCEPT !.canvas = "created"]

\* log::warn!("Creating EventLoop, make sure this happens only once!")
StepWarn(st) == [st EXCEPT !.logs.creating = @ + 1]

\* EventLoopBuilder::with_user_event().build()
StepEventLoop(st) ==
  [st EXCEPT !.loop = [id |-> st.nextId.loop, holder |-> "component"],
             !.nextId.loop = @ + 1]

\* Variant: the builder is not given the title.
StepWindowNoTitle(st) ==
  [st EXCEPT !.win = [id |-> st.nextId.win, canvas |-> st.self,
                      el |-> st.loop.id,
                      size |-> <<st.width, st.height>>, title |-> "",
                      sizeBy |-> "build", titleBy |-> "build"],
             !.nextId.win = @ + 1]

\* WindowBuilder::new().with_canvas(..).with_title(alt).with_inner_size(w, h)
\*   .build(&event_loop)
StepWindow(st) ==
  [st EXCEPT !.win = [id |-> st.nextId.win, canvas |-> st.self,
                      el |-> st.loop.id,
                      size |-> <<st.width, st.height>>, title |-> st.alt,
                      sizeBy |-> "build", titleBy |-> "build"],
             !.nextId.win = @ + 1]

\* Variant: the window is moved into the task and the effect keeps no handle.
StepEffectNoHandle(st) ==
  [st EXCEPT !.effect = [NoEffect EXCEPT !.registered = TRUE,
                                         !.win = 0,
                                         !.pending = TRUE,
                                         !.cause = {"initial"}]]

\* let window = window.clone(); create_effect(move |_| ...): the effect holds
\* a handle to the window built so far and its first run is queued.
StepEffect(st) ==
  [st EXCEPT !.effect = [NoEffect EXCEPT !.registered = TRUE,
                                         !.win = st.win.id,
                                         !.pending = TRUE,
                                         !.cause = {"initial"}]]

\* spawn_local(async move { program(event_loop, window).await; ... }): the
\* task takes the event loop and the window handle out of the function.
StepSpawn(st) ==
  [st EXCEPT !.prog = [NoProg EXCEPT !.state = "spawned",
                                     !.el = st.loop.id,
                                     !.win = st.win.id,
                                     !.spawns = st.prog.spawns + 1],
             !.loop.holder = "program"]

\* canvas_ref.get_untracked(): the canvas goes to the caller as the view.
StepReturn(st) == [st EXCEPT !.canvas = "detached", !.status = "done"]

\* .expect(..) fails: the call unwinds, its locals are dropped.
StepPanic(st) ==
  [st EXCEPT !.status = "panicked",
             !.canvas = IF st.canvas = "none" THEN "none" ELSE "dropped",
             !.loop.holder = IF st.loop.id = 0 THEN "none" ELSE "dropped"]

Step(st, s) ==
  CASE s = "check" -> st
    [] s = "error" -> StepError(st)
    [] s = "canvas" -> StepCanvas(st)
    [] s = "warn" -> StepWarn(st)
    [] s = "eventloop" -> StepEventLoop(st)
    [] s = "window" -> StepWindow(st)
    [] s = "effect" -> StepEffect(st)
    [] s = "spawn" -> StepSpawn(st)
    [] s = "return" -> StepReturn(st)
    [] OTHER -> StepPanic(st)

RECURSIVE Run(_, _)
Run(st, steps) ==
  IF steps = <<>> THEN st ELSE Run(Step(st, Head(steps)), Tail(steps))

\* ------------------------------------------------------------------ actions
Start(calls, changes, progWrites) ==
  /\ status = [i \in Ids |-> "fresh"]
  /\ trace = [i \in Ids |-> <<>>]
  /\ given = [i \in Ids |-> [width |-> {}, height |-> {}, alt |-> {}]]
  /\ env = [i \in Ids |-> [found |-> FALSE, gone |-> {}, refOk |-> TRUE,
                           loopOk |-> TRUE, buildOk |-> TRUE]]
  /\ sig = [i \in Ids |-> [width |-> DefaultWidth, height |-> DefaultHeight,
                           alt |-> DefaultAlt]]
  /\ canvas = [i \in Ids |-> "none"]
  /\ evloop = [i \in Ids |-> NoLoop]
  /\ window = [i \in Ids |-> NoWindow]
  /\ effect = [i \in Ids |-> NoEffect]
  /\ prog = [i \in Ids |-> NoProg]
  /\ logs = [error |-> 0, creating |-> 0, exited |-> 0]
  /\ nextId = [loop |-> 1, win |-> 1]
  /\ budget = [calls |-> calls, changes |-> changes, progWrites |-> progWrites]

\* A page that calls the component several times (several routes, or several
\* widgets in one view), with constant props (MaybeSignal::Static) and
\* programs that leave the size and the title alone.
PageInit == Start(MaxInst, 0, 0)

\* A page with one widget, whose signals and program are active.
Init == Start(1, MaxChanges, MaxProgWrites)

\* One call of Winit(program, width, height, alt), start to end.
Instantiate(i, p, refOk, loopOk, buildOk) ==
  LET w == PropOr(p.width, DefaultWidth)
      h == PropOr(p.height, DefaultHeight)
      a == PropOr(p.alt, DefaultAlt)
      steps == WinitSteps(ExistsWinit, refOk, loopOk, buildOk)
      end == Run(Fresh(i, w, h, a), steps)
  IN /\ status[i] = "fresh"
     /\ budget.calls > 0
     \* the first build() on a page returns; a later one may panic
     /\ nextId.loop = 1 => loopOk
     /\ \A j \in Ids : j < i => status[j] # "fresh"
     /\ status' = [status EXCEPT ![i] = end.status]
     /\ trace' = [trace EXCEPT ![i] = steps]
     /\ given' = [given EXCEPT ![i] = p]
     /\ env' = [env EXCEPT ![i] =
                  Observed(DocWinit # {}, {j \in Ids : canvas[j] = "removed"},
                           refOk, loopOk, buildOk)]
     /\ sig' = [sig EXCEPT ![i] = [width |-> w, height |-> h, alt |-> a]]
     /\ canvas' = [canvas EXCEPT ![i] = end.canvas]
     /\ evloop' = [evloop EXCEPT ![i] = end.loop]
     /\ window' = [window EXCEPT ![i] = end.win]
     /\ effect' = [effect EXCEPT ![i] = end.effect]
     /\ prog' = [prog EXCEPT ![i] = end.prog]
     /\ logs' = end.logs
     /\ nextId' = end.nextId
     /\ budget' = [budget EXCEPT !.calls = @ - 1]

\* The parent view inserts the canvas it was given into the document.
Mount(i) ==
  /\ canvas[i] = "detached"
  /\ canvas' = [canvas EXCEPT ![i] = "mounted"]
  /\ UNCHANGED <<status, trace, given, env, sig, evloop, window, effect, prog,
                 logs, nextId, budget>>

\* The parent view takes the canvas out of the document (a route change).
Remove(i) ==
  /\ canvas[i] = "mounted"
  /\ canvas' = [canvas EXCEPT ![i] = "removed"]
  /\ UNCHANGED <<status, trace, given, env, sig, evloop, window, effect, prog,
                 logs, nextId, budget>>

\* A write to one of the three signals.  Only a prop the caller gave can be
\* a signal of the caller's; an omitted prop is a constant made inside the
\* component.  The effect read all three in its last run, so once it has run
\* any write queues it again; before its first run it is queued already.
SetSignal(i, name, v) ==
  /\ status[i] = "done"
  /\ given[i][name] # {}
  /\ budget.changes > 0
  /\ sig' = [sig EXCEPT ![i][name] = v]
  /\ effect' = [effect EXCEPT ![i].pending = TRUE,
                              ![i].cause = @ \cup {name},
                              ![i].changedIn = prog[i].state]
  /\ budget' = [budget EXCEPT !.changes = @ - 1]
  /\ UNCHANGED <<status, trace, given, env, canvas, evloop, window, prog, logs,
                 nextId>>

SetWidth(i) == \E v \in Widths : SetSignal(i, "width", v)
SetHeight(i) == \E v \in Heights : SetSignal(i, "height", v)
\* Variant: the effect reads alt untracked, so a write to alt queues nothing.
SetAltUntracked(i) ==
  \E v \in Alts :
    /\ status[i] = "done"
    /\ given[i].alt # {}
    /\ budget.changes > 0
    /\ sig' = [sig EXCEPT ![i].alt = v]
    /\ budget' = [budget EXCEPT !.changes = @ - 1]
    /\ UNCHANGED <<status, trace, given, env, canvas, evloop, window, effect,
                   prog, logs, nextId>>

SetAlt(i) == \E v \in Alts : SetSignal(i, "alt", v)

\* Variant: the effect sets only what changed.
EffectWritesChangedOnly(s, cause) ==
  (IF cause \cap {"initial", "width", "height"} # {}
   THEN << [prop |-> "size", size |-> <<s.width, s.height>>, title |-> ""] >>
   ELSE <<>>)
  \o (IF cause \cap {"initial", "alt"} # {}
      THEN << [prop |-> "title", size |-> <<0, 0>>, title |-> s.alt] >>
      ELSE <<>>)

\* The body of the effect closure: the calls it makes on the window.  The
\* closure does not look at which signal queued it.
EffectWrites(s, cause) ==
  << [prop |-> "size", size |-> <<s.width, s.height>>, title |-> ""],
     [prop |-> "title", size |-> <<0, 0>>, title |-> s.alt] >>

\* One setter call on a window, made by `who`.
Write(win, wr, who) ==
  IF wr.prop = "size"
  THEN [win EXCEPT !.size = wr.size, !.sizeBy = who]
  ELSE [win EXCEPT !.title = wr.title, !.titleBy = who]

RECURSIVE WriteAll(_, _, _)
WriteAll(win, wrs, who) ==
  IF wrs = <<>> THEN win
  ELSE WriteAll(Write(win, Head(wrs), who), Tail(wrs), who)

\* The window a handle refers to: the call that built it.
OwnerOf(id) == {j \in Ids : window[j].id = id /\ id # 0}

\* One run of the effect closure.
EffectRun(i) ==
  /\ effect[i].registered
  /\ effect[i].pending
  /\ LET wrs == EffectWrites(sig[i], effect[i].cause)
     IN /\ window' = [j \in Ids |->
                        IF j \in OwnerOf(effect[i].win)
                        THEN WriteAll(window[j], wrs, "effect")
                        ELSE window[j]]
        /\ effect' = [effect EXCEPT ![i].pending = FALSE,
                                    ![i].cause = {},
                                    ![i].ran = TRUE,
                                    ![i].writes = [k \in 1..Len(wrs) |-> wrs[k].prop],
                                    ![i].lastCause = effect[i].cause,
                                    ![i].overwrote = window[i].sizeBy,
                                    ![i].appliedIn = effect[i].changedIn]
  /\ UNCHANGED <<status, trace, given, env, sig, canvas, evloop, prog, logs,
                 nextId, budget>>

\* Variant: the warning is logged before the program is awaited.
ProgramStartWarnsFirst(i) ==
  /\ prog[i].state = "spawned"
  /\ prog' = [prog EXCEPT ![i].state = "running", ![i].calls = @ + 1,
                          ![i].exitWarns = @ + 1]
  /\ logs' = [logs EXCEPT !.exited = @ + 1]
  /\ UNCHANGED <<status, trace, given, env, sig, canvas, evloop, window, effect,
                 nextId, budget>>

\* First poll of the spawned task: program(event_loop, window) is called.
ProgramStart(i) ==
  /\ prog[i].state = "spawned"
  /\ prog' = [prog EXCEPT ![i].state = "running", ![i].calls = @ + 1]
  /\ UNCHANGED <<status, trace, given, env, sig, canvas, evloop, window, effect,
                 logs, nextId, budget>>

\* The program's future completes; the task logs the warning and ends.
ProgramExit(i) ==
  /\ prog[i].state = "running"
  /\ prog' = [prog EXCEPT ![i].state = "exited", ![i].exitWarns = @ + 1]
  /\ logs' = [logs EXCEPT !.exited = @ + 1]
  /\ UNCHANGED <<status, trace, given, env, sig, canvas, evloop, window, effect,
                 nextId, budget>>

\* The running program sets the size or the title through its own handle.
ProgramWrite(i, wr) ==
  /\ prog[i].state = "running"
  /\ budget.progWrites > 0
  /\ window' = [j \in Ids |->
                  IF j \in OwnerOf(prog[i].win)
                  THEN Write(window[j], wr, "program")
                  ELSE window[j]]
  /\ budget' = [budget EXCEPT !.progWrites = @ - 1]
  /\ UNCHANGED <<status, trace, given, env, sig, canvas, evloop, effect, prog,
                 logs, nextId>>

ProgramSetSize(i) ==
  \E s \in ProgSizes :
    ProgramWrite(i, [prop |-> "size", size |-> s, title |-> ""])
ProgramSetTitle(i) ==
  \E t \in ProgTitles :
    ProgramWrite(i, [prop |-> "title", size |-> <<0, 0>>, title |-> t])

Next ==
  \/ \E i \in Ids, p \in Props, refOk \in BOOLEAN, loopOk \in BOOLEAN,
        buildOk \in BOOLEAN :
       Instantiate(i, p, refOk, loopOk, buildOk)
  \/ \E i \in Ids : Mount(i)
  \/ \E i \in Ids : Remove(i)
  \/ \E i \in Ids : SetWidth(i)
  \/ \E i \in Ids : SetHeight(i)
  \/ \E i \in Ids : SetAlt(i)
  \/ \E i \in Ids : EffectRun(i)
  \/ \E i \in Ids : ProgramStart(i)
  \/ \E i \in Ids : ProgramExit(i)
  \/ \E i \in Ids : ProgramSetSize(i)
  \/ \E i \in Ids : ProgramSetTitle(i)

PageNext ==
  \/ \E i \in Ids, p \in PageProps, refOk \in BOOLEAN, loopOk \in BOOLEAN,
        buildOk \in BOOLEAN :
       Instantiate(i, p, refOk, loopOk, buildOk)
  \/ \E i \in Ids : Mount(i)
  \/ \E i \in Ids : Remove(i)
  \/ \E i \in Ids : EffectRun(i)
  \/ \E i \in Ids : ProgramStart(i)
  \/ \E i \in Ids : ProgramExit(i)

Spec == Init /\ [][Next]_vars
PageSpec == PageInit /\ [][PageNext]_vars

\* ------------------------------------------------------------------- claims
Called(i) == status[i] # "fresh"
Done(i) == status[i] = "done"
\* Position of the first occurrence of step s in t, 0 when it is not there.
Pos(t, s) ==
  IF \E k \in 1..Len(t) : t[k] = s
  THEN CHOOSE k \in 1..Len(t) : t[k] = s /\ \A m \in 1..(k - 1) : t[m] # s
  ELSE 0
Times(t, s) == Cardinality({k \in 1..Len(t) : t[k] = s})
Signals == {"width", "height", "alt"}

\* C1: there is never more than one widget (canvas, EventLoop, Window) with
\* its canvas not removed, and a call made while an earlier widget's canvas
\* has not been removed creates no EventLoop.
C1_OneWidgetAtATime ==
  /\ Cardinality({i \in Ids : Done(i) /\ canvas[i] \in {"detached", "mounted"}}) <= 1
  /\ \A i, j \in Ids :
       (i < j /\ Done(i) /\ canvas[i] # "removed" /\ Called(j))
         => evloop[j].id = 0

\* C2: a call that finds an element with id "Winit" in the document logs the
\* error, returns no view and does nothing else.
C2_DuplicateRejected ==
  /\ \A i \in Ids :
       (Called(i) /\ env[i].found)
         => /\ status[i] = "rejected"
            /\ trace[i] = <<"check", "error">>
            /\ canvas[i] = "none"
            /\ evloop[i] = NoLoop
            /\ window[i] = NoWindow
            /\ effect[i] = NoEffect
            /\ prog[i] = NoProg
  /\ logs.error = Cardinality({i \in Ids : Called(i) /\ env[i].found})
  /\ logs.creating = Cardinality({i \in Ids : Called(i) /\ ~env[i].found
                                                /\ env[i].refOk})

C2_Witness ==
  \E i \in Ids : Called(i) /\ env[i].found /\ status[i] = "rejected"
                 /\ logs.error = 1

\* C4: a successful call spawns the program once, with the EventLoop and the
\* Window of that call; the program is called at most once; the exit warning
\* is logged once when its future completes and not before.
C4_ProgramLaunchedOnce ==
  /\ \A i \in Ids :
       Done(i)
         => /\ prog[i].spawns = 1
            /\ prog[i].calls = IF prog[i].state \in {"running", "exited"}
                               THEN 1 ELSE 0
            /\ evloop[i].id # 0 /\ prog[i].el = evloop[i].id
            /\ evloop[i].holder = "program"
            /\ window[i].id # 0 /\ prog[i].win = window[i].id
            /\ window[i].canvas = i /\ window[i].el = evloop[i].id
            /\ prog[i].exitWarns = IF prog[i].state = "exited" THEN 1 ELSE 0
  /\ \A i \in Ids : ~Done(i) => prog[i] = NoProg
  /\ \A i, j \in Ids :
       (i # j /\ Done(i) /\ Done(j))
         => prog[i].el # prog[j].el /\ prog[i].win # prog[j].win
  /\ logs.exited = Cardinality({i \in Ids : prog[i].state = "exited"})

C4_Witness ==
  \E i, j \in Ids :
    /\ i # j /\ Done(i) /\ Done(j)
    /\ prog[i].state = "exited" /\ prog[i].calls = 1
    /\ prog[i].exitWarns = 1 /\ logs.exited = 1
    /\ prog[j].state = "running" /\ prog[j].exitWarns = 0
    /\ prog[i].el # prog[j].el /\ prog[i].win # prog[j].win

C7_FatalSetupAborts ==
  \A i \in Ids :
    (Called(i) /\ ~env[i].found /\ (~env[i].refOk \/ ~env[i].buildOk))
      => /\ status[i] = "panicked"
         /\ effect[i] = NoEffect
         /\ prog[i] = NoProg
         /\ window[i] = NoWindow
         /\ canvas[i] = "dropped"
         /\ ~env[i].refOk => evloop[i].id = 0
         /\ env[i].refOk => (evloop[i].id # 0 /\ evloop[i].holder = "dropped")

C7_Witness ==
  \E i, j \in Ids :
    /\ status[i] = "panicked" /\ ~env[i].refOk /\ evloop[i].id = 0
    /\ status[j] = "panicked" /\ ~env[j].buildOk /\ evloop[j].id # 0

\* C8: a successful call runs check, canvas, EventLoop, Window, effect, spawn
\* in that order, each once; so the program and the effect always have a
\* built Window, and each successful call creates one EventLoop.
C8_StepOrder ==
  /\ \A i \in Ids :
       Done(i)
         => LET t == trace[i]
            IN /\ Pos(t, "check") = 1
               /\ Pos(t, "check") < Pos(t, "canvas")
               /\ Pos(t, "canvas") < Pos(t, "eventloop")
               /\ Pos(t, "eventloop") < Pos(t, "window")
               /\ Pos(t, "window") < Pos(t, "effect")
               /\ Pos(t, "effect") < Pos(t, "spawn")
               /\ \A s \in {"check", "canvas", "eventloop", "window", "effect",
                            "spawn"} : Times(t, s) = 1
  /\ \A i \in Ids :
       /\ prog[i].state # "none" => (prog[i].win # 0 /\ prog[i].win = window[i].id)
       /\ effect[i].registered => (effect[i].win # 0 /\ effect[i].win = window[i].id)
       /\ window[i].id # 0 => (window[i].el # 0 /\ window[i].el = evloop[i].id)
  /\ \A i \in Ids : Done(i) => evloop[i].id # 0
  /\ \A i, j \in Ids : (i # j /\ Done(i)) => evloop[j].id # evloop[i].id
  /\ nextId.loop - 1 = Cardinality({evloop[i].id : i \in Ids} \ {0})
  /\ logs.creating = Cardinality({i \in Ids : Pos(trace[i], "warn") > 0})

C8_Witness ==
  \E i \in Ids : Done(i) /\ prog[i].state = "running" /\ effect[i].ran
                 /\ window[i].sizeBy = "effect"

\* C3: once the queued runs of the effect are done, what the effect last
\* wrote to the window is the current width, height and alt.
C3_SignalsReachWindow ==
  \A i \in Ids :
    (effect[i].registered /\ ~effect[i].pending)
      => /\ effect[i].ran
         /\ window[i].sizeBy \in {"effect", "program"}
         /\ window[i].titleBy \in {"effect", "program"}
         /\ window[i].sizeBy = "effect"
              => window[i].size = <<sig[i].width, sig[i].height>>
         /\ window[i].titleBy = "effect" => window[i].title = sig[i].alt

C3_Witness ==
  \E i \in Ids :
    /\ effect[i].ran /\ ~effect[i].pending
    /\ {"width", "alt"} \subseteq effect[i].lastCause
    /\ window[i].sizeBy = "effect" /\ window[i].titleBy = "effect"
    /\ window[i].size = <<500, 480>> /\ window[i].title = "Winit Window"
    /\ given[i] = [width |-> {640}, height |-> {480}, alt |-> {"Game"}]

\* C5: the Window is built on the canvas of the call with the title and the
\* size the props had at the call, 500, 500 and "Winit Window" when omitted.
C5_WindowBuiltFromProps ==
  \A i \in Ids :
    window[i].id # 0
      => /\ window[i].canvas = i
         /\ window[i].sizeBy = "build"
              => /\ given[i].width = {} => window[i].size[1] = 500
                 /\ given[i].width # {} => window[i].size[1] \in given[i].width
                 /\ given[i].height = {} => window[i].size[2] = 500
                 /\ given[i].height # {} => window[i].size[2] \in given[i].height
         /\ window[i].titleBy = "build"
              => /\ given[i].alt = {} => window[i].title = "Winit Window"
                 /\ given[i].alt # {} => window[i].title \in given[i].alt

C5_Witness ==
  \E i \in Ids :
    /\ window[i].sizeBy = "build" /\ window[i].titleBy = "build"
    /\ given[i] = [width |-> {}, height |-> {480}, alt |-> {}]
    /\ window[i].size = <<500, 480>> /\ window[i].title = "Winit Window"
    /\ sig[i].height = 500 /\ effect[i].cause = {"initial", "height"}

\* C9: every run of the effect sets the size and then the title from the
\* current signals, whichever signal queued it and whoever set the size last.
C9_EffectWritesBoth ==
  [][\A i \in Ids :
       (effect[i].pending /\ ~effect'[i].pending)
         => /\ effect'[i].writes = <<"size", "title">>
            /\ window'[i].size = <<sig[i].width, sig[i].height>>
            /\ window'[i].sizeBy = "effect"
            /\ window'[i].title = sig[i].alt
            /\ window'[i].titleBy = "effect"]_vars

C9_Witness ==
  \E i \in Ids :
    /\ effect[i].ran /\ ~effect[i].pending
    /\ effect[i].lastCause = {"alt"}
    /\ effect[i].overwrote = "program"
    /\ window[i].sizeBy = "effect"
    /\ window[i].size = <<sig[i].width, sig[i].height>>

\* C10: the effect and the program hold the Window of their call, the program
\* alone holds the EventLoop, no step after the spawn touches the EventLoop,
\* and effect runs made while the program runs or after it exited still land
\* on that Window.
C10_SharedWindow ==
  \A i \in Ids :
    Done(i)
      => /\ window[i].id # 0
         /\ effect[i].win = window[i].id
         /\ prog[i].win = window[i].id
         /\ prog[i].el = evloop[i].id /\ evloop[i].holder = "program"
         /\ \A k \in 1..Len(trace[i]) :
              k > Pos(trace[i], "spawn") => trace[i][k] \notin {"eventloop", "window"}
         /\ (effect[i].ran /\ ~effect[i].pending
             /\ effect[i].appliedIn \in {"running", "exited"})
              => /\ window[i].titleBy # "build" /\ window[i].sizeBy # "build"
                 /\ window[i].titleBy = "effect" => window[i].title = sig[i].alt
                 /\ window[i].sizeBy = "effect"
                      => window[i].size = <<sig[i].width, sig[i].height>>

C10_Witness ==
  \E i \in Ids :
    /\ prog[i].state = "exited"
    /\ effect[i].changedIn = "exited" /\ effect[i].appliedIn = "exited"
    /\ ~effect[i].pending
    /\ effect[i].lastCause \cap Signals # {}
    /\ effect[i].win = prog[i].win
    /\ window[i].titleBy = "effect" /\ window[i].title = sig[i].alt
    /\ window[i].titleBy = "effect" /\ window[i].sizeBy = "effect"

====
